---- MODULE Spec2Model ----
(***************************************************************************)
(* Assignment-deadline calendar: the deadline store (SQLite table          *)
(* "deadlines"), TSV ingestion, the calendar subscription server's         *)
(* handlers and the static calendar generator.                             *)
(*                                                                         *)
(* Text is modelled as a sequence of one-character strings, so that        *)
(* strip(), upper(), startswith(), replace(), strptime() and isoformat()   *)
(* are computed character by character as Python computes them.            *)
(***************************************************************************)
EXTENDS Integers, Sequences, FiniteSets, TLC

(***************************************************************************)
(* Bounds of the model.                                                    *)
(***************************************************************************)
\* most rows in a TSV file
MaxRows == 2
\* largest AUTOINCREMENT id the model lets an import hand out
MaxId == 5
\* the readings of the wall clock (CURRENT_TIMESTAMP): two tell a row an
\* import stamped from a row another import stamped
Times == {0, 1}

(***************************************************************************)
(* Text                                                                    *)
(***************************************************************************)
\* Python's None / SQL NULL: no text is a sequence holding this token.
None == <<"NULL">>

\* The characters of the model in ASCII (BINARY collation) order.
Alphabet ==
    << " ", "-", ".", "/",
       "0", "1", "2", "3", "4", "5", "6", "7", "8", "9", "@",
       "A", "B", "C", "D", "E", "F", "G", "H", "I", "J", "K", "L", "M",
       "N", "O", "P", "Q", "R", "S", "T", "U", "V", "W", "X", "Y", "Z",
       "a", "b", "c", "d", "e", "f", "g", "h", "i", "j", "k", "l", "m",
       "n", "o", "p", "q", "r", "s", "t", "u", "v", "w", "x", "y", "z" >>

\* the position of each character in that order
OrdOf == [c \in {Alphabet[i] : i \in 1..Len(Alphabet)} |->
             CHOOSE i \in 1..Len(Alphabet) : Alphabet[i] = c]

Ord(c) == OrdOf[c]

Digits == <<"0", "1", "2", "3", "4", "5", "6", "7", "8", "9">>

IsDigit(c) == \E i \in 1..10 : Digits[i] = c

DigitVal(c) == (CHOOSE i \in 1..10 : Digits[i] = c) - 1

LowerCase == <<"a", "b", "c", "d", "e", "f", "g", "h", "i", "j", "k", "l", "m",
               "n", "o", "p", "q", "r", "s", "t", "u", "v", "w", "x", "y", "z">>

UpperCase == <<"A", "B", "C", "D", "E", "F", "G", "H", "I", "J", "K", "L", "M",
               "N", "O", "P", "Q", "R", "S", "T", "U", "V", "W", "X", "Y", "Z">>

\* str.upper(), one character
UpperChar(c) ==
    IF \E i \in 1..26 : LowerCase[i] = c
    THEN UpperCase[CHOOSE i \in 1..26 : LowerCase[i] = c]
    ELSE c

\* str.upper()
upper(s) == [i \in 1..Len(s) |-> UpperChar(s[i])]

\* The whitespace a field of a tab-separated line can hold.
IsSpace(c) == c = " "

RECURSIVE lstrip(_)
lstrip(s) ==
    IF s # <<>> /\ IsSpace(Head(s)) THEN lstrip(Tail(s)) ELSE s

RECURSIVE rstrip(_)
rstrip(s) ==
    IF s # <<>> /\ IsSpace(s[Len(s)]) THEN rstrip(SubSeq(s, 1, Len(s) - 1)) ELSE s

\* str.strip()
strip(s) == rstrip(lstrip(s))

\* str.startswith(prefix)
startswith(s, prefix) ==
    /\ Len(prefix) <= Len(s)
    /\ SubSeq(s, 1, Len(prefix)) = prefix

\* str.replace(old, ""), every occurrence, scanning left to right
RECURSIVE remove_all(_, _)
remove_all(s, old) ==
    IF s = <<>> THEN <<>>
    ELSE IF startswith(s, old)
         THEN remove_all(SubSeq(s, Len(old) + 1, Len(s)), old)
         ELSE <<Head(s)>> \o remove_all(Tail(s), old)

\* str.find(sep) from position i on, counted from 1; 0 when there is none
RECURSIVE find(_, _, _)
find(s, sep, i) ==
    IF i > Len(s) THEN 0 ELSE IF s[i] = sep THEN i ELSE find(s, sep, i + 1)

\* str.split(sep) for a one-character separator
RECURSIVE split(_, _)
split(s, sep) ==
    LET k == find(s, sep, 1)
    IN  IF k = 0 THEN <<s>>
        ELSE <<SubSeq(s, 1, k - 1)>> \o split(SubSeq(s, k + 1, Len(s)), sep)

\* byte-wise comparison of two texts (SQLite's BINARY collation): a < b
RECURSIVE TextLess(_, _)
TextLess(a, b) ==
    IF b = <<>> THEN FALSE
    ELSE IF a = <<>> THEN TRUE
    ELSE IF Head(a) # Head(b) THEN Ord(Head(a)) < Ord(Head(b))
    ELSE TextLess(Tail(a), Tail(b))

\* the number a text of decimal digits denotes
RECURSIVE int(_)
int(s) ==
    IF s = <<>> THEN 0 ELSE 10 * int(SubSeq(s, 1, Len(s) - 1)) + DigitVal(s[Len(s)])

\* "%0<width>d"
RECURSIVE zero_pad(_, _)
zero_pad(n, width) ==
    IF width = 0 THEN <<>>
    ELSE zero_pad(n \div 10, width - 1) \o <<Digits[(n % 10) + 1]>>

(***************************************************************************)
(* Dates                                                                   *)
(***************************************************************************)
IsLeap(y) == (y % 4 = 0 /\ y % 100 # 0) \/ y % 400 = 0

DaysInMonth(y, m) ==
    IF m = 2 THEN (IF IsLeap(y) THEN 29 ELSE 28)
    ELSE IF m \in {4, 6, 9, 11} THEN 30 ELSE 31

AllDigits(s) == \A i \in 1..Len(s) : IsDigit(s[i])

\* a date check that takes every month to have 31 days
date_ok_any_month(y, m, d) ==
    /\ y >= 1
    /\ m \in 1..12
    /\ d \in 1..31

\* datetime.date(y, m, d) is constructible
date_ok(y, m, d) ==
    /\ y >= 1
    /\ m \in 1..12
    /\ d >= 1
    /\ d <= DaysInMonth(y, m)

\* what strptime yields where Python raises ValueError
ValueError == [ok |-> FALSE]

\* the date of year, month and day given in digits, or ValueError when
\* datetime.date rejects them
date_of(ys, ms, ds) ==
    LET y == int(ys)
        m == int(ms)
        d == int(ds)
    IN  IF date_ok(y, m, d) THEN [ok |-> TRUE, y |-> y, m |-> m, d |-> d]
        ELSE ValueError

\* the texts %d and %m match: one or two digits, 1..31 and 1..12
matches_d(s) == Len(s) \in {1, 2} /\ AllDigits(s) /\ int(s) \in 1..31

matches_m(s) == Len(s) \in {1, 2} /\ AllDigits(s) /\ int(s) \in 1..12

\* the texts %Y matches: four digits
matches_Y(s) == Len(s) = 4 /\ AllDigits(s)

\* datetime.strptime(s, "%d/%m/%Y"): the date, or ValueError.
\* %d is 3[0-1]|[1-2]\d|0[1-9]|[1-9], %m is 1[0-2]|0[1-9]|[1-9], %Y is \d\d\d\d,
\* and the whole text must be consumed.
strptime_dmy(s) ==
    LET p == split(s, "/")
    IN  IF Len(p) = 3 /\ matches_d(p[1]) /\ matches_m(p[2]) /\ matches_Y(p[3])
        THEN date_of(p[3], p[2], p[1])
        ELSE ValueError

\* datetime.strptime(s, "%Y-%m-%d"): the date, or ValueError.
strptime_ymd(s) ==
    LET p == split(s, "-")
    IN  IF Len(p) = 3 /\ matches_Y(p[1]) /\ matches_m(p[2]) /\ matches_d(p[3])
        THEN date_of(p[1], p[2], p[3])
        ELSE ValueError

\* the date written day first, as the source file has it
format_day_first(dt) ==
    zero_pad(dt.d, 2) \o <<"/">> \o zero_pad(dt.m, 2) \o <<"/">> \o zero_pad(dt.y, 4)

\* date.isoformat()
isoformat(dt) ==
    zero_pad(dt.y, 4) \o <<"-">> \o zero_pad(dt.m, 2) \o <<"-">> \o zero_pad(dt.d, 2)

(***************************************************************************)
(* Fixed texts of the program                                              *)
(***************************************************************************)
\* the ten module groups, in the order the dictionaries list them
CM1 == <<"C", "M", "1">>
CM2 == <<"C", "M", "2">>
CS1 == <<"C", "S", "1">>
CS2 == <<"C", "S", "2">>
CB == <<"C", "B">>
CP1 == <<"C", "P", "1">>
CP2 == <<"C", "P", "2">>
CP3 == <<"C", "P", "3">>
SP == <<"S", "P">>
SA == <<"S", "A">>

module_groups == <<CM1, CM2, CS1, CS2, CB, CP1, CP2, CP3, SP, SA>>

\* literals of the formatted texts
DefaultAcademicYear == <<"2", "0", "2", "6">>

Space == <<" ">>

Dash == <<"-">>

DeadlineSuffix == <<" ", "d", "e", "a", "d", "l", "i", "n", "e">>

DescriptionPrefix == <<"A", "s", "s", "i", "g", "n", "m", "e", "n", "t", " ", "d", "e", "a", "d", "l", "i", "n", "e", " ", "f", "o", "r", " ">>

UidSuffix == <<"@", "d", "e", "a", "d", "l", "i", "n", "e", "s", "-", "c", "a", "l", "e", "n", "d", "a", "r">>

AllIcs == <<"a", "l", "l", ".", "i", "c", "s">>

DotIcs == <<".", "i", "c", "s">>

AllCalendarName == <<"A", "l", "l", " ", "A", "s", "s", "i", "g", "n", "m", "e", "n", "t", " ", "D", "e", "a", "d", "l", "i", "n", "e", "s", " ", "A", "p", "r", "i", "l", " ", "2", "0", "2", "6">>

MarkingSuffix == <<" ", "M", "a", "r", "k", "i", "n", "g", " ", "D", "e", "a", "d", "l", "i", "n", "e", "s", " ", "A", "p", "r", "i", "l", " ", "2", "0", "2", "6">>

AssignmentCategory == <<"A", "s", "s", "i", "g", "n", "m", "e", "n", "t">>

ALL == <<"A", "L", "L">>

CalendarPrefix == <<"/", "c", "a", "l", "e", "n", "d", "a", "r", "/">>

StaticNameMiddle == <<" ", "A", "s", "s", "i", "g", "n", "m", "e", "n", "t", " ", "D", "e", "a", "d", "l", "i", "n", "e", "s", " ">>

September == <<"S", "e", "p", "t", "e", "m", "b", "e", "r">>

(***************************************************************************)
(* The source TSV file, as csv.reader yields it: a sequence of rows, each  *)
(* a sequence of fields.                                                   *)
(***************************************************************************)
\* a valid row of group CM1 with no recommended date
RowPlain == <<<<"C", "M", "1", "A">>, <<"X", "1">>, <<>>, <<"0", "1", "/", "1", "2", "/", "2", "0", "2", "6">>>>

\* the same trimmed module and assignment code, padded, with other dates
RowSameKey == <<<<" ", "C", "M", "1", "A">>, <<"X", "1", " ">>, <<"1", "5", "/", "1", "1", "/", "2", "0", "2", "6">>, <<"0", "2", "/", "1", "2", "/", "2", "0", "2", "6">>>>

\* lower case and padded, a blank recommended date, one-digit day and month
RowLower == <<<<" ", "c", "m", "2", "b", " ">>, <<"X", "2">>, <<" ">>, <<"1", "/", "2", "/", "2", "0", "2", "4">>>>

\* 29 February of a leap year
RowLeap == <<<<"C", "S", "1", "B">>, <<"Y", "1">>, <<>>, <<"2", "9", "/", "0", "2", "/", "2", "0", "2", "4">>>>

\* a day the month does not have
RowBadDeadline == <<<<"C", "S", "1", "B">>, <<"Y", "2">>, <<>>, <<"3", "1", "/", "0", "2", "/", "2", "0", "2", "6">>>>

\* a deadline in year-month-day form
RowIsoDeadline == <<<<"C", "P", "1", "A">>, <<"X", "1">>, <<>>, <<"2", "0", "2", "6", "-", "1", "2", "-", "0", "1">>>>

\* a valid deadline with a recommended date that does not parse
RowBadRecommend == <<<<"C", "B", "1">>, <<"Y", "1">>, <<"3", "1", "/", "0", "2", "/", "2", "0", "2", "6">>, <<"0", "1", "/", "1", "2", "/", "2", "0", "2", "6">>>>

\* a module code that starts with none of the ten groups
RowNoGroup == <<<<"X", "C", "M", "1">>, <<"X", "1">>, <<>>, <<"0", "1", "/", "1", "2", "/", "2", "0", "2", "6">>>>

\* three fields only
RowShort == <<<<"C", "M", "2", "A">>, <<"X", "1">>, <<"0", "1", "/", "1", "2", "/", "2", "0", "2", "6">>>>

\* a fifth field
RowLong == <<<<"S", "A", "1">>, <<"Z", "1">>, <<>>, <<"1", "5", "/", "1", "1", "/", "2", "0", "2", "6">>, <<"n">>>>

RowPool ==
    { RowPlain, RowSameKey, RowLower, RowLeap, RowBadDeadline, RowIsoDeadline,
      RowBadRecommend, RowNoGroup, RowShort, RowLong }

\* two rows of group SA with one deadline, the dash in the assignment code of
\* the first and in the module code of the second
RowDashCode == <<<<"S", "A", "1">>, <<"Z", "-", "1">>, <<>>, <<"0", "1", "/", "1", "1", "/", "2", "0", "2", "6">>>>

RowDashModule == <<<<"S", "A", "1", "-", "Z">>, <<"1">>, <<>>, <<"0", "1", "/", "1", "1", "/", "2", "0", "2", "6">>>>

\* every row of the model's files
AllRows == RowPool \cup {RowDashCode, RowDashModule}

\* files of two records of one group: with equal deadlines, and with deadlines
\* in the opposite order of the module codes
DashFiles == { <<RowDashCode, RowDashModule>>, <<RowDashModule, RowLong>> }

RECURSIVE SeqsUpTo(_, _)
SeqsUpTo(S, n) ==
    IF n = 0 THEN {<<>>}
    ELSE LET shorter == SeqsUpTo(S, n - 1)
         IN  shorter \cup {Append(f, e) : f \in {g \in shorter : Len(g) = n - 1}, e \in S}

\* the TSV files of the model
Files == SeqsUpTo(RowPool, MaxRows) \cup DashFiles

(***************************************************************************)
(* The deadlines table                                                     *)
(***************************************************************************)
\* a schema whose academic_year DEFAULT is the year of the clock
new_row_current_year(id, module_code, module_group, assignment_code, title, recommend_date, deadline_date, t) ==
    [ id              |-> id,
      module_code     |-> module_code,
      module_group    |-> module_group,
      assignment_code |-> assignment_code,
      title           |-> title,
      recommend_date  |-> recommend_date,
      deadline_date   |-> deadline_date,
      academic_year   |-> IF t = 0 THEN DefaultAcademicYear
                          ELSE <<"2", "0", "2", "7">>,
      is_active       |-> TRUE,
      created_at      |-> t,
      updated_at      |-> t ]

\* the row an INSERT of the six listed columns creates: id from AUTOINCREMENT,
\* academic_year, is_active, created_at and updated_at from their DEFAULTs
new_row(id, module_code, module_group, assignment_code, title, recommend_date, deadline_date, t) ==
    [ id              |-> id,
      module_code     |-> module_code,
      module_group    |-> module_group,
      assignment_code |-> assignment_code,
      title           |-> title,
      recommend_date  |-> recommend_date,
      deadline_date   |-> deadline_date,
      academic_year   |-> DefaultAcademicYear,
      is_active       |-> TRUE,
      created_at      |-> t,
      updated_at      |-> t ]

\* UNIQUE(module_code, assignment_code, academic_year)
same_key(r, q) ==
    /\ r.module_code = q.module_code
    /\ r.assignment_code = q.assignment_code
    /\ r.academic_year = q.academic_year

\* a plain INSERT into a table without the unique key
insert_plain(table, r) == table \cup {r}

\* INSERT OR REPLACE: the rows that conflict on the unique key are deleted,
\* then the new row is inserted
insert_or_replace(table, r) ==
    {q \in table : ~same_key(q, r)} \cup {r}

\* the loop over module_groups without upper()
find_module_group_cased(module) ==
    LET hits == {k \in 1..Len(module_groups) :
                     startswith(strip(module), module_groups[k])}
    IN  IF hits = {} THEN None
        ELSE module_groups[CHOOSE k \in hits : \A j \in hits : k <= j]

\* the loop over module_groups: the first key the trimmed, upper-cased module
\* code starts with, or None
find_module_group(module) ==
    LET hits == {k \in 1..Len(module_groups) :
                     startswith(upper(strip(module)), module_groups[k])}
    IN  IF hits = {} THEN None
        ELSE module_groups[CHOOSE k \in hits : \A j \in hits : k <= j]

\* a try block that stores the row without a recommended date when the
\* recommended date does not parse
parse_dates_lenient(recommend_date_str, deadline_date_str) ==
    LET deadline_date == strptime_dmy(strip(deadline_date_str))
        recommend_date == strptime_dmy(strip(recommend_date_str))
    IN  IF ~deadline_date.ok THEN ValueError
        ELSE IF ~recommend_date.ok
             THEN [ok |-> TRUE, deadline |-> isoformat(deadline_date), recommend |-> None]
        ELSE [ok |-> TRUE, deadline |-> isoformat(deadline_date),
              recommend |-> isoformat(recommend_date)]

\* the body of the try block: both dates, or ValueError from either strptime
parse_dates(recommend_date_str, deadline_date_str) ==
    LET deadline_date == strptime_dmy(strip(deadline_date_str))
        recommend_date == strptime_dmy(strip(recommend_date_str))
    IN  IF ~deadline_date.ok THEN ValueError
        ELSE IF strip(recommend_date_str) = <<>>
             THEN [ok |-> TRUE, deadline |-> isoformat(deadline_date), recommend |-> None]
        ELSE IF ~recommend_date.ok THEN ValueError
        ELSE [ok |-> TRUE, deadline |-> isoformat(deadline_date),
              recommend |-> isoformat(recommend_date)]

\* what the loop body does with a row before the INSERT: continue (ok is
\* FALSE), or the six values the INSERT binds
row_values(row) ==
    IF Len(row) < 4 THEN [ok |-> FALSE]
    ELSE LET module == row[1]
             code == row[2]
             module_group == find_module_group(module)
             dates == parse_dates(row[3], row[4])
         IN  IF module_group = None THEN [ok |-> FALSE]
             ELSE IF ~dates.ok THEN [ok |-> FALSE]
             ELSE [ ok              |-> TRUE,
                    module_code     |-> strip(module),
                    module_group    |-> module_group,
                    assignment_code |-> strip(code),
                    title           |-> strip(module) \o Space \o strip(code),
                    recommend_date  |-> dates.recommend,
                    deadline_date   |-> dates.deadline ]

\* row_values of every row of the pool, computed once
RowValues == [row \in AllRows |-> row_values(row)]

\* one pass of the for loop over the reader's rows
import_row(st, row, t) ==
    LET v == RowValues[row]
    IN  IF ~v.ok THEN st
        ELSE [ table |-> insert_or_replace(st.table,
                             new_row(st.seq + 1, v.module_code, v.module_group,
                                     v.assignment_code, v.title, v.recommend_date,
                                     v.deadline_date, t)),
               seq |-> st.seq + 1 ]

\* a loop that breaks at the first row of fewer than four fields
RECURSIVE import_rows_until_short(_, _, _)
import_rows_until_short(st, rows, t) ==
    IF rows = <<>> \/ Len(Head(rows)) < 4 THEN st
    ELSE import_rows_until_short(import_row(st, Head(rows), t), Tail(rows), t)

RECURSIVE import_rows(_, _, _)
import_rows(st, rows, t) ==
    IF rows = <<>> THEN st
    ELSE import_rows(import_row(st, Head(rows), t), Tail(rows), t)

\* an import without the DELETE
delete_none(table) == table

\* DELETE FROM deadlines: every row goes, sqlite_sequence stays
delete_all(table) == {}

\* import_from_tsv: the table and sqlite_sequence it commits
import_from_tsv(table, seq, rows, t) ==
    import_rows([table |-> delete_all(table), seq |-> seq], rows, t)

(***************************************************************************)
(* The import as the statements of one connection                          *)
(***************************************************************************)
\* a connection in autocommit mode: every statement is committed at once
read_uncommitted(committed, working) == working

\* what every other connection reads while the importing connection has run
\* statements and not yet committed: sqlite3.connect() with the default
\* isolation_level opens a transaction before the DELETE, and the rows of an
\* open transaction are the writer's alone
read_by_others(committed, working) == committed

\* cursor.execute("DELETE FROM deadlines"): the transaction it opens, with the
\* rows still to insert; before keeps the rows the table held
begin_import(table, sequence, rows, t) ==
    [ active |-> TRUE,
      table  |-> delete_all(table),
      seq    |-> sequence,
      rest   |-> rows,
      t      |-> t,
      before |-> table ]

\* one pass of the loop over the reader's rows, in the open transaction
import_next(tx) ==
    LET st == import_row([table |-> tx.table, seq |-> tx.seq], Head(tx.rest), tx.t)
    IN  [tx EXCEPT !.table = st.table, !.seq = st.seq, !.rest = Tail(tx.rest)]

\* a connection whose statements are committed when it is closed
commit_on_close(committed, working) == working

\* the importing connection goes away without conn.commit() (open() or the
\* reader raised and import_from_tsv was left): SQLite rolls the open
\* transaction back and the file holds the committed rows and sequence
rollback(committed, working) == committed

\* the transaction of an import that failed: before keeps the rows the table
\* held when the import began, left the number of rows it had not read
failed_import(tx) ==
    [ active |-> FALSE,
      failed |-> TRUE,
      before |-> tx.before,
      left   |-> Len(tx.rest) ]

(***************************************************************************)
(* Queries                                                                 *)
(***************************************************************************)
\* Python truth of an optional text: None and "" are false
truthy(s) == s # None /\ s # <<>>

\* lexicographic comparison of two tuples of texts: a <= b
RECURSIVE KeyLeq(_, _)
KeyLeq(a, b) ==
    IF a = <<>> THEN TRUE
    ELSE IF Head(a) = Head(b) THEN KeyLeq(Tail(a), Tail(b))
    ELSE TextLess(Head(a), Head(b))

\* every listing of the rows of S in the order of their keys (key is a function
\* on S); rows with equal keys come in either order, as SQLite promises none
Orderings(S, key) ==
    LET n == Cardinality(S)
    IN  { f \in [1..n -> S] :
            /\ \A i, j \in 1..n : i # j => f[i] # f[j]
            /\ \A i \in 1..(n - 1) : KeyLeq(key[f[i]], key[f[i + 1]]) }

\* the five selected columns
selected(r) ==
    <<r.module_code, r.assignment_code, r.title, r.deadline_date, r.recommend_date>>

\* WHERE module_group = ? AND is_active = 1, the parameter upper-cased
where_group(table, module_group) ==
    LET param == upper(module_group)
    IN  {r \in table : r.module_group = param /\ r.is_active}

\* WHERE is_active = 1
where_active(table) == {r \in table : r.is_active}

\* an ORDER BY module_code, deadline_date
order_by_module_code(r) == <<r.module_code, r.deadline_date>>

order_by_date(r) == <<r.deadline_date, r.module_code>>

order_by_group(r) == <<r.module_group, r.deadline_date, r.module_code>>

\* a store an earlier import left, one of whose rows an operator has since
\* deactivated (is_active = 0)
PriorRows ==
    { new_row(1, <<"C", "M", "1", "A">>, CM1, <<"X", "1">>, <<"C", "M", "1", "A", " ", "X", "1">>,
              None, <<"2", "0", "2", "6", "-", "1", "1", "-", "3", "0">>, 0),
      [ new_row(2, <<"S", "A", "2">>, SA, <<"Z", "9">>, <<"S", "A", "2", " ", "Z", "9">>,
                None, <<"2", "0", "2", "6", "-", "0", "4", "-", "0", "1">>, 0) EXCEPT !.is_active = FALSE ],
      new_row(3, <<"C", "S", "2", "C">>, CS2, <<"Y", "9">>, <<"C", "S", "2", "C", " ", "Y", "9">>,
              <<"2", "0", "2", "6", "-", "0", "3", "-", "0", "1">>, <<"2", "0", "2", "6", "-", "0", "4", "-", "0", "1">>, 0) }

\* a database object that read the table when an earlier import had left it,
\* and answers every query from those rows
connect_once(table) == PriorRows

\* sqlite3.connect(self.db_path) at the start of a query: the connection reads
\* the rows the file holds when the query runs (the object keeps the path only)
connect(table) == table

\* get_deadlines_by_group: the results fetchall() can give
get_deadlines_by_group(table, module_group) ==
    LET conn_rows == connect(table)
        listings ==
            IF truthy(module_group)
            THEN LET rows == where_group(conn_rows, module_group)
                 IN  Orderings(rows, [r \in rows |-> order_by_date(r)])
            ELSE LET rows == where_active(conn_rows)
                 IN  Orderings(rows, [r \in rows |-> order_by_group(r)])
    IN  { [i \in 1..Len(f) |-> selected(f[i])] : f \in listings }

(***************************************************************************)
(* Calendar feed                                                           *)
(***************************************************************************)
\* event.uid of the feed
event_uid(module_code, assignment_code, deadline_date_str) ==
    module_code \o Dash \o assignment_code \o Dash \o deadline_date_str \o UidSuffix

\* an Event whose uid carries the category of the feed
make_event_scoped(d, module_group) ==
    LET deadline_date == strptime_ymd(d[4])
        category == IF truthy(module_group) THEN module_group ELSE AssignmentCategory
    IN  [ name        |-> d[1] \o Space \o d[2] \o DeadlineSuffix,
          begin       |-> deadline_date,
          end         |-> deadline_date,
          description |-> DescriptionPrefix \o d[1] \o Space \o d[2],
          categories  |-> <<category>>,
          uid         |-> category \o Dash \o event_uid(d[1], d[2], d[4]) ]

\* the Event built from one fetched row
make_event(d, module_group) ==
    LET deadline_date == strptime_ymd(d[4])
    IN  [ name        |-> d[1] \o Space \o d[2] \o DeadlineSuffix,
          begin       |-> deadline_date,
          end         |-> deadline_date,
          description |-> DescriptionPrefix \o d[1] \o Space \o d[2],
          categories  |-> IF truthy(module_group) THEN <<module_group>>
                          ELSE <<AssignmentCategory>>,
          uid         |-> event_uid(d[1], d[2], d[4]) ]

\* calendar.events.add(event): events is a set and an Event is equal to
\* another with the same uid, so a second event of a uid is not added
events_add(events, e) ==
    IF \E o \in events : o.uid = e.uid THEN events ELSE events \cup {e}

RECURSIVE add_events(_, _)
add_events(events, made) ==
    IF made = <<>> THEN events
    ELSE add_events(events_add(events, Head(made)), Tail(made))

\* generate_calendar: the calendar, or the ValueError of a stored date that
\* strptime("%Y-%m-%d") rejects
generate_calendar(deadlines, module_group, calendar_name) ==
    LET made == [i \in 1..Len(deadlines) |-> make_event(deadlines[i], module_group)]
    IN  IF \E i \in 1..Len(made) : ~made[i].begin.ok
        THEN ValueError
        ELSE [ ok     |-> TRUE,
               name   |-> calendar_name,
               events |-> add_events({}, made) ]

\* path.split('/')[-1]
last_segment(path) == LET p == split(path, "/") IN p[Len(p)]

\* serve_calendar's scope: None for all.ics, else the file name without
\* ".ics", upper-cased
calendar_scope(filename) ==
    IF filename = AllIcs THEN None ELSE upper(remove_all(filename, DotIcs))

calendar_title(filename) ==
    IF filename = AllIcs THEN AllCalendarName
    ELSE calendar_scope(filename) \o MarkingSuffix

\* the dictionary serve_deadlines appends for one fetched row
deadline_json(d) ==
    [ module_code     |-> d[1],
      assignment_code |-> d[2],
      title           |-> d[3],
      deadline_date   |-> d[4],
      recommend_date  |-> d[5] ]

\* a handler that passes the group parameter on as it is
deadlines_scope_raw(group) == group

\* serve_deadlines' scope: the literal ALL means no group
deadlines_scope(group) == IF group = ALL THEN None ELSE group

(***************************************************************************)
(* Module groups, the discovery page and the routes of do_GET              *)
(***************************************************************************)
\* str.lower(), one character
LowerChar(c) ==
    IF \E i \in 1..26 : UpperCase[i] = c
    THEN LowerCase[CHOOSE i \in 1..26 : UpperCase[i] = c]
    ELSE c

\* str.lower()
lower(s) == [i \in 1..Len(s) |-> LowerChar(s[i])]

\* ORDER BY on the values of a SELECT DISTINCT: the texts of S, ascending
RECURSIVE order_by_text(_)
order_by_text(S) ==
    IF S = {} THEN <<>>
    ELSE LET least == CHOOSE a \in S : \A b \in S \ {a} : TextLess(a, b)
         IN  <<least>> \o order_by_text(S \ {least})

\* a query that leaves out WHERE is_active = 1
get_all_module_groups(table) ==
    order_by_text({r.module_group : r \in table})

\* get_module_groups: SELECT DISTINCT module_group ... WHERE is_active = 1
\* ORDER BY module_group
get_module_groups(table) ==
    order_by_text({r.module_group : r \in {q \in table : q.is_active}})

\* request paths and fixed texts of the handlers
RootPath == <<"/">>

ApiGroupsPath == <<"/", "a", "p", "i", "/", "g", "r", "o", "u", "p", "s">>

ApiDeadlinesPath == <<"/", "a", "p", "i", "/", "d", "e", "a", "d", "l", "i", "n", "e", "s">>

FaviconPath == <<"/", "f", "a", "v", "i", "c", "o", "n", ".", "i", "c", "o">>

WebcalScheme == <<"w", "e", "b", "c", "a", "l", ":", "/", "/">>

DefaultHost == <<"l", "o", "c", "a", "l", "h", "o", "s", "t", ":", "8", "0", "8", "0">>

IndexTitleSuffix == <<" ", "A", "s", "s", "i", "g", "n", "m", "e", "n", "t", " ", "D", "e", "a", "d", "l", "i", "n", "e", "s", " ", "A", "p", "r", "i", "l", " ", "2", "0", "2", "6">>

AllEntryTitle == <<"A", "L", "L", " ", "-", " ", "A", "l", "l", " ", "A", "s", "s", "i", "g", "n", "m", "e", "n", "t", " ", "D", "e", "a", "d", "l", "i", "n", "e", "s">>

\* the Host header of the request, or its default
host_header(host) == IF host = None THEN DefaultHost ELSE host

\* the entry serve_index writes for one group: its title, the argument of
\* showDeadlines, the subscribe link and the URL shown for copying
group_entry(group, base_host) ==
    [ title  |-> group \o IndexTitleSuffix,
      show   |-> group,
      webcal |-> WebcalScheme \o base_host \o CalendarPrefix \o lower(group) \o DotIcs,
      url    |-> WebcalScheme \o base_host \o CalendarPrefix \o lower(group) \o DotIcs ]

\* the entry of the combined calendar
all_entry(base_host) ==
    [ title  |-> AllEntryTitle,
      show   |-> ALL,
      webcal |-> WebcalScheme \o base_host \o CalendarPrefix \o AllIcs,
      url    |-> WebcalScheme \o base_host \o CalendarPrefix \o AllIcs ]

\* the calendar-link blocks of the page, in page order: base_host is the one
\* the last pass of the loop over the groups assigned
index_entries(groups, host) ==
    LET base_host == host_header(host)
    IN  [i \in 1..Len(groups) |-> group_entry(groups[i], base_host)]
            \o <<all_entry(base_host)>>

\* serve_index: the page, or, when there is no group, the UnboundLocalError of
\* https_base_url, which only the loop body assigns; the handler then ends
\* without writing a response (status 0)
serve_index(table, path, host) ==
    LET groups == get_module_groups(table)
    IN  IF groups = <<>>
        THEN [ op |-> "index", path |-> path, status |-> 0,
               raised |-> "UnboundLocalError" ]
        ELSE [ op |-> "index", path |-> path, status |-> 200,
               entries |-> index_entries(groups, host) ]

\* do_GET: the responses the handler of the path can write
do_GET(table, path, host) ==
    IF path = RootPath
    THEN { serve_index(table, path, host) }
    ELSE IF startswith(path, CalendarPrefix)
    THEN LET filename == last_segment(path)
             module_group == calendar_scope(filename)
             made == { generate_calendar(deadlines, module_group,
                                         calendar_title(filename)) :
                       deadlines \in get_deadlines_by_group(table, module_group) }
         IN  { [ op |-> "calendar", path |-> path,
                 status |-> IF calendar.ok THEN 200 ELSE 500,
                 calendar |-> calendar ] : calendar \in made }
    ELSE IF path = ApiGroupsPath
    THEN { [ op |-> "groups", path |-> path, status |-> 200,
             groups |-> get_module_groups(table) ] }
    ELSE IF path = ApiDeadlinesPath
    THEN { [ op |-> "deadlines", path |-> path, status |-> 200,
             deadlines |-> [i \in 1..Len(deadlines) |-> deadline_json(deadlines[i])] ] :
           deadlines \in get_deadlines_by_group(table, deadlines_scope(None)) }
    ELSE IF path = FaviconPath
    THEN { [op |-> "favicon", path |-> path, status |-> 204, body |-> <<>>] }
    ELSE { [op |-> "error", path |-> path, status |-> 404] }

(***************************************************************************)
(* Static calendar generator                                               *)
(***************************************************************************)
\* parse_date: the datetime, or None (a value whose ok field is FALSE)
parse_date(date_str) ==
    LET dt == strptime_dmy(strip(date_str)) IN IF dt.ok THEN dt ELSE [ok |-> FALSE]

\* a loop over module_files that compares the module code as it is written
static_group_cased(module) ==
    LET hits == {k \in 1..Len(module_groups) :
                     startswith(strip(module), module_groups[k])}
    IN  IF hits = {} THEN None
        ELSE module_groups[CHOOSE k \in hits : \A j \in hits : k <= j]

\* the key of module_files the row goes to, or None
static_group(module) ==
    LET hits == {k \in 1..Len(module_groups) :
                     startswith(upper(strip(module)), module_groups[k])}
    IN  IF hits = {} THEN None
        ELSE module_groups[CHOOSE k \in hits : \A j \in hits : k <= j]

\* what the loop body does with a row: continue or no matching key (ok is
\* FALSE), or the key of module_files and the Event added to its calendar
static_row(row) ==
    IF Len(row) < 4 THEN [ok |-> FALSE]
    ELSE LET module == row[1]
             code == row[2]
             start == parse_date(row[4])
             mod_key == static_group(module)
         IN  IF ~start.ok THEN [ok |-> FALSE]
             ELSE IF mod_key = None THEN [ok |-> FALSE]
             ELSE [ ok      |-> TRUE,
                    mod_key |-> mod_key,
                    name    |-> module \o Space \o code \o DeadlineSuffix,
                    begin   |-> start,
                    end     |-> start ]

\* static_row of every row of the pool, computed once
StaticRow == [row \in AllRows |-> static_row(row)]

\* the rows of the file that add an event
static_rows(rows) == {i \in 1..Len(rows) : StaticRow[rows[i]].ok}

\* the Event of row i; it is given a fresh random uid, modelled by the row's
\* position in the file
static_event(rows, i) ==
    LET e == StaticRow[rows[i]]
    IN  [name |-> e.name, begin |-> e.begin, end |-> e.end, uid |-> i]

\* str(year)
RECURSIVE str(_)
str(n) == IF n < 10 THEN <<Digits[n + 1]>> ELSE str(n \div 10) \o <<Digits[(n % 10) + 1]>>

\* module_files[key]
module_file(key, month, year) ==
    key \o StaticNameMiddle \o month \o Space \o str(year) \o DotIcs

\* calendars[key].events after the loop over the rows
static_calendar(rows, key) ==
    { static_event(rows, i) :
        i \in {j \in static_rows(rows) : StaticRow[rows[j]].mod_key = key} }

\* a generator that writes the file of every calendar
generate_every_file(rows, year, month) ==
    { [ file   |-> module_file(module_groups[k], month, year),
        group  |-> module_groups[k],
        events |-> static_calendar(rows, module_groups[k]) ] :
      k \in 1..Len(module_groups) }

\* generate_static_files: the files written, those of the calendars that hold
\* an event (if cal.events), each with its calendar's events
generate_static_files(rows, year, month) ==
    { [ file   |-> module_file(module_groups[k], month, year),
        group  |-> module_groups[k],
        events |-> static_calendar(rows, module_groups[k]) ] :
      k \in {h \in 1..Len(module_groups) :
                static_calendar(rows, module_groups[h]) # {}} }

(***************************************************************************)
(* The conversion tool's command line                                      *)
(***************************************************************************)
valid_months ==
    { <<"J", "a", "n", "u", "a", "r", "y">>,
      <<"F", "e", "b", "r", "u", "a", "r", "y">>,
      <<"M", "a", "r", "c", "h">>,
      <<"A", "p", "r", "i", "l">>,
      <<"M", "a", "y">>,
      <<"J", "u", "n", "e">>,
      <<"J", "u", "l", "y">>,
      <<"A", "u", "g", "u", "s", "t">>,
      <<"S", "e", "p", "t", "e", "m", "b", "e", "r">>,
      <<"O", "c", "t", "o", "b", "e", "r">>,
      <<"N", "o", "v", "e", "m", "b", "e", "r">>,
      <<"D", "e", "c", "e", "m", "b", "e", "r">> }

\* the default year of the static files, as --year would give it
DefaultYear == <<"2", "0", "2", "6">>

\* Python truth of the parsed --year: None and 0 are false
truthy_year(year) == year # None /\ int(year) # 0

\* the TSV file of the model, and a path at which there is no file
InputFile == <<"d", ".", "t", "s", "v">>

MissingFile == <<"x", ".", "t", "s", "v">>

\* os.path.exists(args.input_path)
path_exists(path) == path = InputFile

\* what one run of main does: its exit status, whether start_server() was
\* called, whether import_to_database() was, the files written, and the table
\* and sqlite_sequence it leaves.  year is None or the digits given to --year
\* (argparse applies int to them)
main(args, rows, table, sequence, t) ==
    LET unchanged == [table |-> table, seq |-> sequence]
        stop(status) == [ exit |-> status, server |-> FALSE, imported |-> FALSE,
                          written |-> {}, st |-> unchanged ]
    IN  IF args.start_server
        THEN [ exit |-> 0, server |-> TRUE, imported |-> FALSE,
               written |-> {}, st |-> unchanged ]
        ELSE IF args.input_path = None THEN stop(1)
        ELSE IF ~path_exists(args.input_path) THEN stop(1)
        ELSE IF args.to_database
        THEN [ exit |-> 0, server |-> args.start_server, imported |-> TRUE,
               written |-> {}, st |-> import_from_tsv(table, sequence, rows, t) ]
        ELSE LET year == IF truthy_year(args.year) THEN int(args.year) ELSE int(DefaultYear)
                 month == IF truthy(args.month) THEN args.month ELSE September
             IN  IF year < 1900 \/ year > 3000 THEN stop(1)
                 ELSE IF month \notin valid_months THEN stop(1)
                 ELSE [ exit |-> 0, server |-> FALSE, imported |-> FALSE,
                        written |-> generate_static_files(rows, year, month),
                        st |-> unchanged ]

(***************************************************************************)
(* Stores found when the program starts, and the requests of the model     *)
(***************************************************************************)
\* the store files of the model: a fresh one and the one of PriorRows
PriorStores ==
    { [table |-> {}, seq |-> 0],
      [table |-> PriorRows, seq |-> 3] }

\* request paths under /calendar/
CalendarPaths ==
    { CalendarPrefix \o <<"a", "l", "l", ".", "i", "c", "s">>,
      CalendarPrefix \o <<"c", "m", "1", ".", "i", "c", "s">>,
      CalendarPrefix \o <<"S", "A", ".", "i", "c", "s">>,
      CalendarPrefix \o <<"z", "z", ".", "i", "c", "s">>,
      CalendarPrefix \o <<".", "i", "c", "s">> }

\* values of the group parameter of /api/deadlines; None when it is absent
\* (parse_qs drops a blank value, so it is never the empty text)
GroupParams ==
    { None, ALL, <<"c", "m", "1">>, <<"S", "A">>, <<"Z", "Z">> }

\* the paths of the requests of the model: the five routes, a path under
\* /calendar/ that does not end in .ics, and paths of no route
RequestPaths ==
    { RootPath, ApiGroupsPath, ApiDeadlinesPath, FaviconPath,
      CalendarPrefix \o AllIcs,
      CalendarPrefix \o <<"c", "m", "1">>,
      <<"/", "c", "a", "l", "e", "n", "d", "a", "r">>,
      <<"/", "a", "p", "i">>,
      <<"/", "i", "n", "d", "e", "x", ".", "h", "t", "m", "l">>,
      <<"/", "a", "p", "i", "/", "g", "r", "o", "u", "p", "s", "/">> }

\* the Host header: absent, or the name the server is reached by
Hosts == { None, <<"h", ".", "e", "x", "a", "m", "p", "l", "e">> }

\* the values of --year: absent, 0, below, inside and above the range
YearArgs == { None, <<"0">>, <<"1", "8", "9", "9">>, <<"2", "0", "2", "6">>, <<"3", "0", "0", "1">> }

\* the values of --month: absent, empty, a month name, a misspelt one
MonthArgs == { None, <<>>, September, <<"F", "r", "o", "b", "r", "u", "a", "r", "y">> }

\* the command lines of the model: every combination of options with an
\* existing input file, and the flags alone with a missing or no input path
CliArgs ==
    [ input_path : {InputFile}, year : YearArgs, month : MonthArgs,
      to_database : BOOLEAN, start_server : BOOLEAN ]
    \cup [ input_path : {None, MissingFile}, year : {None}, month : {None},
           to_database : BOOLEAN, start_server : BOOLEAN ]

\* no import is between its DELETE and its commit
NoTransaction == [active |-> FALSE]

\* the connections clients may open
Connections == {"c1", "c2", "c3"}

\* the server socket after HTTPServer((host, port), handler_class)
NoConnections == [backlog |-> <<>>, handling |-> {}, answered |-> {}]

(***************************************************************************)
(* State                                                                   *)
(***************************************************************************)
VARIABLES
    tsv,      \* the rows of the source TSV file
    db,       \* the committed rows of the deadlines table
    seq,      \* sqlite_sequence: the largest id ever given out
    loaded,   \* TRUE once import_from_tsv has committed the rows of tsv
    last,     \* the last operation and what it answered
    txn,      \* the open transaction of an import that runs statement by statement
    conn      \* the inbound connections of the server: those waiting in the
              \* listen queue, those a handler is busy with, those answered

vars == <<tsv, db, seq, loaded, last, txn, conn>>

\* the last import of the store failed, and none has begun since
ImportFailed == "failed" \in DOMAIN txn

\* the connections of the listen queue
Waiting == {conn.backlog[i] : i \in 1..Len(conn.backlog)}

Init ==
    /\ tsv \in Files
    /\ \E s \in PriorStores : db = s.table /\ seq = s.seq
    /\ loaded = FALSE
    /\ last = [op |-> "init"]
    /\ txn = NoTransaction
    /\ conn = NoConnections

\* DeadlineDatabase.import_from_tsv(tsv_path); last keeps the number of rows
\* the DELETE removed
ImportFromTsv ==
    /\ seq + Len(tsv) <= MaxId
    /\ \E t \in Times :
         LET st == import_from_tsv(db, seq, tsv, t)
         IN  /\ db' = st.table
             /\ seq' = st.seq
    /\ loaded' = TRUE
    /\ last' = [op |-> "import", deleted |-> Cardinality(db)]
    /\ UNCHANGED <<tsv, txn, conn>>

\* do_GET of a path under /calendar/: serve_calendar
ServeCalendar ==
    \E path \in CalendarPaths :
        /\ startswith(path, CalendarPrefix)
        /\ LET filename == last_segment(path)
               module_group == calendar_scope(filename)
           IN  \E deadlines \in get_deadlines_by_group(db, module_group) :
                   LET calendar == generate_calendar(deadlines, module_group,
                                                     calendar_title(filename))
                   IN  last' = [ op       |-> "calendar",
                                 path     |-> path,
                                 status   |-> IF calendar.ok THEN 200 ELSE 500,
                                 calendar |-> calendar ]
        /\ UNCHANGED <<tsv, db, seq, loaded, txn, conn>>

\* do_GET of /api/deadlines: serve_deadlines
ServeDeadlines ==
    \E group \in GroupParams :
        /\ \E deadlines \in get_deadlines_by_group(db, deadlines_scope(group)) :
               last' = [ op        |-> "deadlines",
                         group     |-> group,
                         status    |-> 200,
                         deadlines |-> [i \in 1..Len(deadlines) |->
                                           deadline_json(deadlines[i])] ]
        /\ UNCHANGED <<tsv, db, seq, loaded, txn, conn>>

\* deadlines_to_ics.main without --to-database, --year or --month:
\* generate_static_files(input_path, 2026, 'September')
GenerateStaticFiles ==
    /\ last' = [ op      |-> "static",
                 written |-> generate_static_files(tsv, 2026, September) ]
    /\ UNCHANGED <<tsv, db, seq, loaded, txn, conn>>

\* CalendarHandler.do_GET of any path
DoGet ==
    \E path \in RequestPaths, host \in Hosts :
        /\ last' \in do_GET(db, path, host)
        /\ UNCHANGED <<tsv, db, seq, loaded, txn, conn>>

\* one run of deadlines_to_ics.main on the store as it was found
ConvertMain ==
    /\ last.op = "init"
    /\ seq + Len(tsv) <= MaxId
    /\ \E args \in CliArgs, t \in Times :
         LET out == main(args, tsv, db, seq, t)
         IN  /\ db' = out.st.table
             /\ seq' = out.st.seq
             /\ loaded' = out.imported
             /\ last' = [ op       |-> "convert",
                          args     |-> args,
                          exit     |-> out.exit,
                          server   |-> out.server,
                          imported |-> out.imported,
                          written  |-> out.written ]
    /\ UNCHANGED <<tsv, txn, conn>>

\* import_from_tsv up to and including its DELETE
BeginImport ==
    /\ ~txn.active
    /\ seq + Len(tsv) <= MaxId
    /\ \E t \in Times :
         /\ txn' = begin_import(db, seq, tsv, t)
         /\ db' = read_by_others(db, txn'.table)
    /\ UNCHANGED <<tsv, seq, loaded, last, conn>>

\* import_from_tsv: the next row of the reader
InsertRow ==
    /\ txn.active
    /\ txn.rest # <<>>
    /\ txn' = import_next(txn)
    /\ db' = read_by_others(db, txn'.table)
    /\ UNCHANGED <<tsv, seq, loaded, last, conn>>

\* import_from_tsv: conn.commit() after the last row
CommitImport ==
    /\ txn.active
    /\ txn.rest = <<>>
    /\ db' = txn.table
    /\ seq' = txn.seq
    /\ loaded' = TRUE
    /\ last' = [op |-> "import", deleted |-> Cardinality(txn.before)]
    /\ txn' = NoTransaction
    /\ UNCHANGED <<tsv, conn>>

\* serve_deadlines of a request that arrives while the import runs, through
\* the connection get_deadlines_by_group opens; left is the number of rows the
\* import had still to read
QueryDuringImport ==
    /\ txn.active
    /\ \E group \in {None, SA} :
         \E deadlines \in get_deadlines_by_group(db, deadlines_scope(group)) :
             last' = [ op        |-> "deadlines",
                       group     |-> group,
                       status    |-> 200,
                       deadlines |-> [i \in 1..Len(deadlines) |->
                                         deadline_json(deadlines[i])],
                       left      |-> Len(txn.rest) ]
    /\ UNCHANGED <<tsv, db, seq, loaded, txn, conn>>

\* the same request while the importing connection holds the file locked for
\* longer than the reader's timeout: execute raises OperationalError and the
\* handler ends without a response (status 0)
QueryLocked ==
    /\ txn.active
    /\ last' = [ op |-> "deadlines", group |-> None, status |-> 0,
                 raised |-> "OperationalError", left |-> Len(txn.rest) ]
    /\ UNCHANGED <<tsv, db, seq, loaded, txn, conn>>

\* import_from_tsv raises after its DELETE: open(tsv_path) fails (no row has
\* been read) or the reader fails on a later part of the file; conn.commit()
\* is not reached
FailImport ==
    /\ txn.active
    /\ LET st == rollback([table |-> db, seq |-> seq],
                          [table |-> txn.table, seq |-> txn.seq])
       IN  /\ db' = st.table
           /\ seq' = st.seq
    /\ txn' = failed_import(txn)
    /\ last' = [op |-> "import_failed", left |-> Len(txn.rest)]
    /\ UNCHANGED <<tsv, loaded, conn>>

\* serve_deadlines of a request that arrives after an import has failed
QueryAfterFailure ==
    /\ ImportFailed
    /\ \E group \in {None, SA} :
         \E deadlines \in get_deadlines_by_group(db, deadlines_scope(group)) :
             last' = [ op            |-> "deadlines",
                       group         |-> group,
                       status        |-> 200,
                       deadlines     |-> [i \in 1..Len(deadlines) |->
                                             deadline_json(deadlines[i])],
                       left          |-> txn.left,
                       after_failure |-> TRUE ]
    /\ UNCHANGED <<tsv, db, seq, loaded, txn, conn>>

\* a client connects: the connection waits in the listen queue of the socket
Connect ==
    /\ \E c \in Connections \ (Waiting \cup conn.handling \cup conn.answered) :
         conn' = [conn EXCEPT !.backlog = Append(@, c)]
    /\ UNCHANGED <<tsv, db, seq, loaded, last, txn>>

\* serve_forever of HTTPServer: the loop takes the next connection of the
\* queue and runs its handler in the loop's own thread, so only when no
\* handler is running
HandleRequest ==
    /\ conn.handling = {}
    /\ conn.backlog # <<>>
    /\ conn' = [conn EXCEPT !.backlog = Tail(@), !.handling = {Head(conn.backlog)}]
    /\ UNCHANGED <<tsv, db, seq, loaded, last, txn>>

\* the storage and response I/O of the running handler completes and the
\* handler returns
FinishRequest ==
    /\ \E c \in conn.handling :
         conn' = [conn EXCEPT !.handling = @ \ {c}, !.answered = @ \cup {c}]
    /\ UNCHANGED <<tsv, db, seq, loaded, last, txn>>

Next ==
    \/ ImportFromTsv
    \/ ServeCalendar
    \/ ServeDeadlines
    \/ GenerateStaticFiles

Spec == Init /\ [][Next]_vars

\* the server answering requests of every path, and the imports between them
NextRoutes ==
    \/ ImportFromTsv
    \/ DoGet

SpecRoutes == Init /\ [][NextRoutes]_vars

\* one run of the conversion tool
NextCli == ConvertMain

SpecCli == Init /\ [][NextCli]_vars

\* an import running statement by statement beside the server's requests
NextImport ==
    \/ BeginImport
    \/ InsertRow
    \/ CommitImport
    \/ QueryDuringImport
    \/ QueryLocked
    \/ FailImport
    \/ QueryAfterFailure

SpecImport == Init /\ [][NextImport]_vars

\* the server's loop and its connections; the loop runs whenever it can, and
\* nothing says that the I/O of a handler ever completes
NextServer ==
    \/ Connect
    \/ HandleRequest
    \/ FinishRequest

SpecServer == Init /\ [][NextServer]_vars /\ WF_vars(HandleRequest)

(***************************************************************************)
(* What the specification says of a row of the source file                 *)
(***************************************************************************)
\* the first of the ten codes, tried in order, that the trimmed, upper-cased
\* module code starts with; None when it starts with none
FirstGroup(module) ==
    LET m == upper(strip(module))
        Starts(k) == startswith(m, module_groups[k])
    IN  IF \E k \in 1..10 : Starts(k)
        THEN module_groups[CHOOSE k \in 1..10 :
                               Starts(k) /\ \A j \in 1..(k - 1) : ~Starts(j)]
        ELSE None

\* the days of month m of year y in the Gregorian calendar
MonthLength(y, m) ==
    CASE m \in {1, 3, 5, 7, 8, 10, 12} -> 31
      [] m \in {4, 6, 9, 11} -> 30
      [] OTHER -> IF y % 400 = 0 \/ (y % 4 = 0 /\ y % 100 # 0) THEN 29 ELSE 28

\* the trimmed text is a calendar date written day/month/year: one or two
\* digits, one or two digits, four digits, and the day exists
IsDayMonthYear(text) ==
    LET p == split(strip(text), "/")
    IN  /\ Len(p) = 3
        /\ Len(p[1]) \in {1, 2} /\ Len(p[2]) \in {1, 2} /\ Len(p[3]) = 4
        /\ \A k \in 1..3 : AllDigits(p[k])
        /\ int(p[3]) >= 1
        /\ int(p[2]) >= 1 /\ int(p[2]) <= 12
        /\ int(p[1]) >= 1 /\ int(p[1]) <= MonthLength(int(p[3]), int(p[2]))

\* one digit gets a leading zero
TwoDigits(s) == IF Len(s) = 1 THEN <<"0">> \o s ELSE s

\* the yyyy-mm-dd text of the same day as a day/month/year text
IsoOf(text) ==
    LET p == split(strip(text), "/")
    IN  p[3] \o <<"-">> \o TwoDigits(p[2]) \o <<"-">> \o TwoDigits(p[1])

\* a text has the form yyyy-mm-dd
IsIsoForm(s) ==
    /\ Len(s) = 10
    /\ s[5] = "-" /\ s[8] = "-"
    /\ \A k \in {1, 2, 3, 4, 6, 7, 9, 10} : IsDigit(s[k])

\* the recommended-date field is empty after trimming
BlankRecommend(row) == strip(row[3]) = <<>>

\* the row is one ingestion accepts: four fields, a module code of one of the
\* groups, a valid deadline and a recommended date that is empty or valid
Accepted(row) ==
    /\ Len(row) >= 4
    /\ FirstGroup(row[1]) # None
    /\ IsDayMonthYear(row[4])
    /\ BlankRecommend(row) \/ IsDayMonthYear(row[3])

\* the natural key of the record of a row (every record of an import has
\* the default academic year)
KeyOf(row) == <<strip(row[1]), strip(row[2])>>

RecordKey(r) == <<r.module_code, r.assignment_code>>

\* row i is accepted and no later accepted row of the file has its key
LastOfKey(F, i) ==
    /\ Accepted(F[i])
    /\ \A j \in (i + 1)..Len(F) : Accepted(F[j]) => KeyOf(F[j]) # KeyOf(F[i])

\* the data columns of the record of an accepted row
RecordOf(row) ==
    [ module_code     |-> strip(row[1]),
      module_group    |-> FirstGroup(row[1]),
      assignment_code |-> strip(row[2]),
      title           |-> strip(row[1]) \o <<" ">> \o strip(row[2]),
      recommend_date  |-> IF BlankRecommend(row) THEN None ELSE IsoOf(row[3]),
      deadline_date   |-> IsoOf(row[4]),
      academic_year   |-> <<"2", "0", "2", "6">>,
      is_active       |-> TRUE ]

\* the data columns of a stored row: all but id, created_at and updated_at
Data(r) ==
    [ module_code     |-> r.module_code,
      module_group    |-> r.module_group,
      assignment_code |-> r.assignment_code,
      title           |-> r.title,
      recommend_date  |-> r.recommend_date,
      deadline_date   |-> r.deadline_date,
      academic_year   |-> r.academic_year,
      is_active       |-> r.is_active ]

DataOf(table) == {Data(r) : r \in table}

\* the records the file yields
RecordsOf(F) == {RecordOf(F[i]) : i \in {j \in 1..Len(F) : LastOfKey(F, j)}}

(***************************************************************************)
(* C1  Ingestion is a full replace: when import_from_tsv has committed,     *)
(* the stored records are exactly the records of the accepted rows of the  *)
(* file (for rows that share a key, of the last of them); no row of the    *)
(* store found before survives unless the file yields it.                  *)
(***************************************************************************)
C1_FullReplace ==
    last.op = "import" =>
        /\ DataOf(db) = RecordsOf(tsv)
        /\ Cardinality(db) = Cardinality(RecordsOf(tsv))

\* an import that deleted rows of an earlier store and stored other records
C1_Witness ==
    /\ last.op = "import"
    /\ last.deleted > 0
    /\ db # {}
    /\ DataOf(db) \cap DataOf(PriorRows) = {}

(***************************************************************************)
(* C2  Natural-key uniqueness: the store never holds two rows with the     *)
(* same (module_code, assignment_code, academic_year), and after an import *)
(* each stored row carries the dates of the last accepted row of the file  *)
(* with its trimmed module and assignment code.                            *)
(***************************************************************************)
C2_UniqueKey ==
    /\ \A r, q \in db : same_key(r, q) => r = q
    /\ last.op = "import" =>
         \A r \in db :
             \E i \in 1..Len(tsv) :
                 /\ LastOfKey(tsv, i)
                 /\ KeyOf(tsv[i]) = RecordKey(r)
                 /\ r.deadline_date = IsoOf(tsv[i][4])
                 /\ r.recommend_date =
                        IF BlankRecommend(tsv[i]) THEN None ELSE IsoOf(tsv[i][3])

\* a file whose two accepted rows share a key and differ in their dates has
\* been imported, and one record is stored
C2_Witness ==
    /\ last.op = "import"
    /\ Len(tsv) = 2
    /\ Accepted(tsv[1]) /\ Accepted(tsv[2])
    /\ KeyOf(tsv[1]) = KeyOf(tsv[2])
    /\ tsv[1][4] # tsv[2][4]
    /\ Cardinality(db) = 1

(***************************************************************************)
(* C3  Idempotence as stated: an import of the file right after an import  *)
(* of the same file leaves the store identical in every stored column.     *)
(* The code does not do this: AUTOINCREMENT gives the rows new ids, and    *)
(* created_at and updated_at are read from the clock again.                *)
(***************************************************************************)
C3_IdenticalStore ==
    [][(last.op = "import" /\ last'.op = "import") => db' = db]_vars

(***************************************************************************)
(* C3 (amended)  An import of the file right after an import of the same   *)
(* file leaves the same number of rows with the same data columns          *)
(* (module_code, module_group, assignment_code, title, recommend_date,     *)
(* deadline_date, academic_year, is_active); only id, created_at and       *)
(* updated_at may differ.                                                  *)
(***************************************************************************)
C3_IdempotentData ==
    [][(last.op = "import" /\ last'.op = "import") =>
           /\ DataOf(db') = DataOf(db)
           /\ Cardinality(db') = Cardinality(db)]_vars

\* the second import of a file in a row: it deleted what the first stored
\* and gave every row an id beyond those of the first
C3_Witness ==
    /\ last.op = "import"
    /\ db # {}
    /\ last.deleted = Cardinality(db)
    /\ seq = 2 * Cardinality(db)
    /\ \A r \in db : r.id > Cardinality(db)

(***************************************************************************)
(* C4  Classification: a row whose trimmed, upper-cased module code starts *)
(* with one of the ten codes belongs to the first such code, in the store  *)
(* and in the static files; a row whose module code starts with none of    *)
(* them is in no stored record, no feed event and no static file.          *)
(***************************************************************************)
C4_Classification ==
    /\ \A r \in db : r.module_group = FirstGroup(r.module_code)
    /\ last.op = "import" =>
         \A i \in 1..Len(tsv) :
             Len(tsv[i]) >= 4 =>
                 /\ Accepted(tsv[i]) =>
                        \E r \in db : /\ r.module_code = strip(tsv[i][1])
                                      /\ r.module_group = FirstGroup(tsv[i][1])
                 /\ FirstGroup(tsv[i][1]) = None =>
                        \A r \in db : r.module_code # strip(tsv[i][1])
    /\ (loaded /\ last.op = "calendar" /\ last.calendar.ok) =>
         \A i \in 1..Len(tsv) :
             (Len(tsv[i]) >= 4 /\ FirstGroup(tsv[i][1]) = None) =>
                 \A e \in last.calendar.events :
                     ~startswith(e.name, strip(tsv[i][1]) \o <<" ">>)
    /\ last.op = "static" =>
         /\ \A w \in last.written :
                \A e \in w.events : FirstGroup(tsv[e.uid][1]) = w.group
         /\ \A i \in 1..Len(tsv) :
                (/\ Len(tsv[i]) >= 4
                 /\ IsDayMonthYear(tsv[i][4])
                 /\ FirstGroup(tsv[i][1]) # None) =>
                    \E w \in last.written :
                        /\ w.group = FirstGroup(tsv[i][1])
                        /\ \E e \in w.events : e.uid = i

\* a feed generated after the import of a file with one row of no group and
\* one accepted row whose module code is in lower case
C4_Witness ==
    /\ loaded
    /\ last.op = "calendar"
    /\ last.calendar.events # {}
    /\ \E i, j \in 1..Len(tsv) :
           /\ Len(tsv[i]) >= 4 /\ FirstGroup(tsv[i][1]) = None
           /\ Accepted(tsv[j]) /\ upper(tsv[j][1]) # tsv[j][1]

(***************************************************************************)
(* C5  Deadline-date validation: every stored record, feed event and       *)
(* static event comes from a row whose deadline text is a valid            *)
(* day/month/year date, so a row with an invalid one (31/02/2026) yields   *)
(* none; the stored deadline_date has the form yyyy-mm-dd and denotes the  *)
(* day of the text.                                                        *)
(***************************************************************************)
C5_DeadlineValidation ==
    /\ last.op = "import" =>
         /\ \A r \in db :
                /\ IsIsoForm(r.deadline_date)
                /\ \E i \in 1..Len(tsv) :
                       /\ Len(tsv[i]) >= 4
                       /\ KeyOf(tsv[i]) = RecordKey(r)
                       /\ IsDayMonthYear(tsv[i][4])
                       /\ r.deadline_date = IsoOf(tsv[i][4])
         /\ \A i \in 1..Len(tsv) :
                LastOfKey(tsv, i) =>
                    \E r \in db : /\ KeyOf(tsv[i]) = RecordKey(r)
                                  /\ r.deadline_date = IsoOf(tsv[i][4])
    /\ (loaded /\ last.op = "calendar" /\ last.calendar.ok) =>
         \A e \in last.calendar.events :
             \E i \in 1..Len(tsv) :
                 /\ Len(tsv[i]) >= 4
                 /\ IsDayMonthYear(tsv[i][4])
                 /\ e.name = strip(tsv[i][1]) \o <<" ">> \o strip(tsv[i][2])
                                \o DeadlineSuffix
                 /\ isoformat(e.begin) = IsoOf(tsv[i][4])
    /\ last.op = "static" =>
         \A w \in last.written :
             \A e \in w.events :
                 /\ IsDayMonthYear(tsv[e.uid][4])
                 /\ isoformat(e.begin) = IsoOf(tsv[e.uid][4])

\* a file with a row of an invalid deadline and an accepted row has been
\* imported and a feed with an event generated
C5_Witness ==
    /\ loaded
    /\ last.op = "calendar"
    /\ last.calendar.events # {}
    /\ \E i, j \in 1..Len(tsv) :
           /\ Len(tsv[i]) >= 4 /\ FirstGroup(tsv[i][1]) # None
           /\ ~IsDayMonthYear(tsv[i][4])
           /\ Accepted(tsv[j])

(***************************************************************************)
(* C6  Recommended-date coupling: a stored record comes from a row whose   *)
(* recommended-date field is empty after trimming (recommend_date is then  *)
(* absent) or a valid date; a row whose field is not empty and not a valid *)
(* date yields no record even when its deadline is valid.                  *)
(***************************************************************************)
C6_RecommendCoupling ==
    last.op = "import" =>
        /\ \A r \in db :
               \E i \in 1..Len(tsv) :
                   /\ Len(tsv[i]) >= 4
                   /\ KeyOf(tsv[i]) = RecordKey(r)
                   /\ IsDayMonthYear(tsv[i][4])
                   /\ r.deadline_date = IsoOf(tsv[i][4])
                   /\ \/ BlankRecommend(tsv[i]) /\ r.recommend_date = None
                      \/ /\ ~BlankRecommend(tsv[i])
                         /\ IsDayMonthYear(tsv[i][3])
                         /\ r.recommend_date = IsoOf(tsv[i][3])
        /\ \A i \in 1..Len(tsv) :
               (LastOfKey(tsv, i) /\ BlankRecommend(tsv[i])) =>
                   \E r \in db : /\ KeyOf(tsv[i]) = RecordKey(r)
                                 /\ r.recommend_date = None
        /\ \A i \in 1..Len(tsv) :
               (/\ Len(tsv[i]) >= 4
                /\ ~BlankRecommend(tsv[i])
                /\ ~IsDayMonthYear(tsv[i][3])
                /\ \A j \in 1..Len(tsv) :
                       (j # i /\ Len(tsv[j]) >= 4) => KeyOf(tsv[j]) # KeyOf(tsv[i])) =>
                   \A r \in db : RecordKey(r) # KeyOf(tsv[i])

\* an import of a file with a row of a valid deadline and an invalid
\* recommended date, and a row stored with no recommended date
C6_Witness ==
    /\ last.op = "import"
    /\ \E i \in 1..Len(tsv) :
           /\ Len(tsv[i]) >= 4 /\ FirstGroup(tsv[i][1]) # None
           /\ IsDayMonthYear(tsv[i][4])
           /\ ~BlankRecommend(tsv[i]) /\ ~IsDayMonthYear(tsv[i][3])
    /\ \E r \in db : r.recommend_date = None

(***************************************************************************)
(* C7  Short-row tolerance: a row of fewer than four fields yields nothing *)
(* and stops nothing: every record and static event comes from a row of    *)
(* at least four fields, every acceptable row before or after a short one  *)
(* is processed, and only the first four fields of a row are used.         *)
(***************************************************************************)
C7_ShortRows ==
    /\ last.op = "import" =>
         /\ \A r \in db :
                \E i \in 1..Len(tsv) :
                    /\ Len(tsv[i]) >= 4
                    /\ Accepted(SubSeq(tsv[i], 1, 4))
                    /\ Data(r) = RecordOf(SubSeq(tsv[i], 1, 4))
         /\ \A i \in 1..Len(tsv) :
                Accepted(tsv[i]) => \E r \in db : RecordKey(r) = KeyOf(tsv[i])
    /\ last.op = "static" =>
         /\ \A w \in last.written :
                \A e \in w.events :
                    /\ Len(tsv[e.uid]) >= 4
                    /\ e.name = tsv[e.uid][1] \o <<" ">> \o tsv[e.uid][2]
                                    \o DeadlineSuffix
         /\ \A i \in 1..Len(tsv) :
                (/\ Len(tsv[i]) >= 4
                 /\ IsDayMonthYear(tsv[i][4])
                 /\ FirstGroup(tsv[i][1]) # None) =>
                    \E w \in last.written : \E e \in w.events : e.uid = i

\* an import of a file whose first row is short and whose second row is
\* accepted and stored
C7_Witness ==
    /\ last.op = "import"
    /\ Len(tsv) = 2
    /\ Len(tsv[1]) < 4
    /\ Accepted(tsv[2])
    /\ \E r \in db : RecordKey(r) = KeyOf(tsv[2])

\* static files written from a file whose first row is short and whose second
\* row has a fifth field
C7_WitnessStatic ==
    /\ last.op = "static"
    /\ Len(tsv) = 2
    /\ Len(tsv[1]) < 4
    /\ Len(tsv[2]) > 4
    /\ last.written # {}

(***************************************************************************)
(* What the specification says of a request                                *)
(***************************************************************************)
\* {name} of a path /calendar/{name}.ics
FeedName(path) ==
    LET f == last_segment(path) IN SubSeq(f, 1, Len(f) - Len(DotIcs))

\* the summary of the event of a stored row
SummaryOf(r) == r.module_code \o <<" ">> \o r.assignment_code \o DeadlineSuffix

\* the active rows of the store, and those of one group
Active == {r \in db : r.is_active}

ActiveOf(group) == {r \in db : r.is_active /\ r.module_group = group}

\* the entry of /api/deadlines for a stored row
EntryOf(r) ==
    [ module_code     |-> r.module_code,
      assignment_code |-> r.assignment_code,
      title           |-> r.title,
      deadline_date   |-> r.deadline_date,
      recommend_date  |-> r.recommend_date ]

\* the response lists exactly the rows of S, each once
Lists(deadlines, S) ==
    /\ Len(deadlines) = Cardinality(S)
    /\ {deadlines[i] : i \in 1..Len(deadlines)} = {EntryOf(r) : r \in S}

(***************************************************************************)
(* C8  Feed scoping: /calendar/all.ics has an event for every active       *)
(* record; for every other name, the empty name included, the feed has     *)
(* events only for active records whose module_group is the upper-cased    *)
(* name, and the response is a 200.  The code does not do this for the     *)
(* empty name: /calendar/.ics is answered with the events of every group.  *)
(***************************************************************************)
C8_FeedScoping ==
    last.op = "calendar" =>
        /\ last.status = 200
        /\ FeedName(last.path) = <<"a", "l", "l">> =>
               \A r \in Active :
                   \E e \in last.calendar.events : e.name = SummaryOf(r)
        /\ FeedName(last.path) # <<"a", "l", "l">> =>
               \A e \in last.calendar.events :
                   \E r \in ActiveOf(upper(FeedName(last.path))) :
                       e.name = SummaryOf(r)

(***************************************************************************)
(* C9  Deterministic event identity: every event of a feed has the uid     *)
(* "{module_code}-{assignment_code}-{deadline_date}@deadlines-calendar" of *)
(* the stored record it is the event of, with deadline_date in its stored  *)
(* yyyy-mm-dd form, whatever the scope requested and however many feeds    *)
(* were generated before.                                                  *)
(***************************************************************************)
C9_EventUid ==
    (last.op = "calendar" /\ last.calendar.ok) =>
        \A e \in last.calendar.events :
            \E r \in Active :
                /\ e.name = SummaryOf(r)
                /\ IsIsoForm(r.deadline_date)
                /\ e.uid = r.module_code \o <<"-">> \o r.assignment_code \o <<"-">>
                               \o r.deadline_date \o UidSuffix

\* the feed of one group, generated after an import, with an event
C9_Witness ==
    /\ loaded
    /\ last.op = "calendar"
    /\ FeedName(last.path) # <<"a", "l", "l">>
    /\ last.calendar.events # {}

(***************************************************************************)
(* C10  /api/deadlines scoping as stated: with no group parameter or the   *)
(* literal ALL the response lists every active record; for any other value *)
(* G it lists exactly the active records whose module_group equals G.  The *)
(* code compares module_group with G in upper case, so group=cm1 lists the *)
(* records of CM1.                                                         *)
(***************************************************************************)
C10_GroupEqualsParam ==
    last.op = "deadlines" =>
        /\ last.status = 200
        /\ IF last.group = None \/ last.group = ALL
           THEN Lists(last.deadlines, Active)
           ELSE Lists(last.deadlines, ActiveOf(last.group))

(***************************************************************************)
(* C10 (amended)  With no group parameter or the literal ALL the response  *)
(* lists every active record of every group; for any other value G it      *)
(* lists exactly the active records whose module_group equals G in upper   *)
(* case (none, and still a 200, when there is no such group).              *)
(***************************************************************************)
C10_GroupEqualsUpperParam ==
    last.op = "deadlines" =>
        /\ last.status = 200
        /\ IF last.group = None \/ last.group = ALL
           THEN Lists(last.deadlines, Active)
           ELSE Lists(last.deadlines, ActiveOf(upper(last.group)))

\* a request with group=cm1 answered with records
C10_Witness ==
    /\ last.op = "deadlines"
    /\ last.group = <<"c", "m", "1">>
    /\ last.deadlines # <<>>

\* a request with group=ALL answered with the records of two groups
C10_WitnessAll ==
    /\ last.op = "deadlines"
    /\ last.group = ALL
    /\ \E i, j \in 1..Len(last.deadlines) :
           \E r, q \in Active :
               /\ last.deadlines[i] = EntryOf(r)
               /\ last.deadlines[j] = EntryOf(q)
               /\ r.module_group # q.module_group

(***************************************************************************)
(* C11  GET /api/groups answers 200 with exactly the module groups that    *)
(* have an active record, each once, in ascending order; the list is empty *)
(* when the store holds no active record.                                  *)
(***************************************************************************)
C11_Groups ==
    last.op = "groups" =>
        /\ last.status = 200
        /\ {last.groups[i] : i \in 1..Len(last.groups)} = {r.module_group : r \in Active}
        /\ \A i \in 1..(Len(last.groups) - 1) :
               TextLess(last.groups[i], last.groups[i + 1])

\* two groups listed after an import, and a group left out because its only
\* record is inactive
C11_Witness ==
    /\ last.op = "groups"
    /\ Len(last.groups) = 2
    /\ \E r \in db : ~r.is_active /\ \A i \in 1..2 : last.groups[i] # r.module_group

\* the empty list of an empty store
C11_WitnessEmpty ==
    /\ last.op = "groups"
    /\ db = {}
    /\ last.groups = <<>>

(***************************************************************************)
(* What the specification says of the discovery page                       *)
(***************************************************************************)
\* the subscription link of the feed of a name, on the host of the request
LinkOf(name, host) ==
    <<"w", "e", "b", "c", "a", "l", ":", "/", "/">> \o (IF host = None THEN DefaultHost ELSE host)
        \o <<"/", "c", "a", "l", "e", "n", "d", "a", "r", "/">> \o name \o <<".", "i", "c", "s">>

(***************************************************************************)
(* C13  Discovery page: for every store state, a store with no records     *)
(* included, GET / answers 200 with a page that has one entry per module   *)
(* group of the active records and exactly one ALL entry, each with the    *)
(* subscription link of its feed.  The code does not do this for a store   *)
(* with no active record: the handler raises and writes no page.           *)
(***************************************************************************)
C13_DiscoveryPage ==
    last.op = "index" =>
        /\ last.status = 200
        /\ \E host \in Hosts :
               /\ \A g \in {r.module_group : r \in Active} :
                      Cardinality({i \in 1..Len(last.entries) :
                                       /\ last.entries[i].show = g
                                       /\ last.entries[i].webcal = LinkOf(lower(g), host)}) = 1
               /\ Cardinality({i \in 1..Len(last.entries) :
                                   /\ last.entries[i].show = ALL
                                   /\ last.entries[i].webcal = LinkOf(<<"a", "l", "l">>, host)}) = 1
               /\ Len(last.entries) = Cardinality({r.module_group : r \in Active}) + 1

(***************************************************************************)
(* What the specification says of the order of a listing                   *)
(***************************************************************************)
\* the day a stored yyyy-mm-dd text denotes, as a number that grows with time
DayNumber(s) ==
    int(SubSeq(s, 1, 4)) * 10000 + int(SubSeq(s, 6, 7)) * 100 + int(SubSeq(s, 9, 10))

\* a text is not after another in ascending order
TextLeq(a, b) == a = b \/ TextLess(a, b)

\* ascending by deadline date, then by module code
DateThenCode(d, e) ==
    \/ DayNumber(d.deadline_date) < DayNumber(e.deadline_date)
    \/ /\ d.deadline_date = e.deadline_date
       /\ TextLeq(d.module_code, e.module_code)

\* the module group of the record an entry lists
GroupOfEntry(e) == (CHOOSE r \in Active : EntryOf(r) = e).module_group

(***************************************************************************)
(* C12  Order and activity filter of get_deadlines_by_group, as the        *)
(* /api/deadlines response lists its result: every entry is an active      *)
(* record; with a group given the entries ascend by deadline date, then by *)
(* module code; with no group they ascend by module group, then deadline   *)
(* date, then module code.                                                 *)
(***************************************************************************)
C12_OrderAndActivity ==
    last.op = "deadlines" =>
        LET n == Len(last.deadlines)
            listed == last.deadlines
        IN  /\ \A i \in 1..n : \E r \in Active : listed[i] = EntryOf(r)
            /\ (last.group # None /\ last.group # ALL) =>
                   \A i \in 1..(n - 1) : DateThenCode(listed[i], listed[i + 1])
            /\ (last.group = None \/ last.group = ALL) =>
                   \A i \in 1..(n - 1) :
                       \/ TextLess(GroupOfEntry(listed[i]), GroupOfEntry(listed[i + 1]))
                       \/ /\ GroupOfEntry(listed[i]) = GroupOfEntry(listed[i + 1])
                          /\ DateThenCode(listed[i], listed[i + 1])

\* a group's listing whose dates ascend against the order of its module codes
C12_Witness ==
    /\ last.op = "deadlines"
    /\ last.group = <<"S", "A">>
    /\ Len(last.deadlines) = 2
    /\ TextLess(last.deadlines[2].module_code, last.deadlines[1].module_code)
    /\ DayNumber(last.deadlines[1].deadline_date) < DayNumber(last.deadlines[2].deadline_date)

\* a group's listing of two records of one deadline date
C12_WitnessTie ==
    /\ last.op = "deadlines"
    /\ last.group = <<"S", "A">>
    /\ Len(last.deadlines) = 2
    /\ last.deadlines[1].deadline_date = last.deadlines[2].deadline_date
    /\ TextLess(last.deadlines[1].module_code, last.deadlines[2].module_code)

\* a listing of every group whose later group has the earlier deadline, with
\* an inactive record in the store
C12_WitnessNoGroup ==
    /\ last.op = "deadlines"
    /\ last.group = None
    /\ Len(last.deadlines) = 2
    /\ DayNumber(last.deadlines[2].deadline_date) < DayNumber(last.deadlines[1].deadline_date)
    /\ \E r \in db : ~r.is_active

(***************************************************************************)
(* What the specification says of the routes                               *)
(***************************************************************************)
\* a path of the form /calendar/{name}.ics
IsFeedPath(path) ==
    LET n == Len(path)
    IN  /\ n >= 14
        /\ SubSeq(path, 1, 10) = <<"/", "c", "a", "l", "e", "n", "d", "a", "r", "/">>
        /\ SubSeq(path, n - 3, n) = <<".", "i", "c", "s">>

\* a path of one of the five routes
IsRoute(path) ==
    \/ path = <<"/">>
    \/ IsFeedPath(path)
    \/ path = <<"/", "a", "p", "i", "/", "g", "r", "o", "u", "p", "s">>
    \/ path = <<"/", "a", "p", "i", "/", "d", "e", "a", "d", "l", "i", "n", "e", "s">>
    \/ path = <<"/", "f", "a", "v", "i", "c", "o", "n", ".", "i", "c", "o">>

\* the operations that answer with a calendar, a page or a JSON body
BodyOps == {"calendar", "index", "groups", "deadlines"}

(***************************************************************************)
(* C14  Routing: /favicon.ico is always answered with an empty 204, and a  *)
(* GET of a path that is none of /, /calendar/{name}.ics, /api/groups,     *)
(* /api/deadlines and /favicon.ico is answered 404 and never with a        *)
(* calendar, page or JSON body.  The code serves a calendar for every path *)
(* that starts with /calendar/, whether or not it ends in .ics.            *)
(***************************************************************************)
C14_Routing ==
    last.op \in (BodyOps \cup {"favicon", "error"}) =>
        /\ last.path = <<"/", "f", "a", "v", "i", "c", "o", "n", ".", "i", "c", "o">> =>
               last.status = 204 /\ last.op = "favicon" /\ last.body = <<>>
        /\ ~IsRoute(last.path) =>
               last.status = 404 /\ last.op \notin BodyOps

(***************************************************************************)
(* What the specification says of the static files                         *)
(***************************************************************************)
\* the static generator accepts a row: four fields, a deadline that is a
\* calendar date in day/month/year form, a module code of one of the groups
StaticAccepted(row) ==
    /\ Len(row) >= 4
    /\ IsDayMonthYear(row[4])
    /\ FirstGroup(row[1]) # None

\* "{GROUP} Assignment Deadlines {Month} {Year}.ics"
StaticFileName(group, month, year) ==
    group \o <<" ", "A", "s", "s", "i", "g", "n", "m", "e", "n", "t", " ", "D", "e", "a", "d", "l", "i", "n", "e", "s", " ">> \o month \o <<" ">> \o year \o <<".", "i", "c", "s">>

(***************************************************************************)
(* C15  File emission of the static generator: the file                    *)
(* "{GROUP} Assignment Deadlines {Month} {Year}.ics" is written for a      *)
(* group if and only if a row of the TSV was accepted into that group; a   *)
(* group with no accepted row gets no file, and no written calendar is     *)
(* empty.                                                                  *)
(***************************************************************************)
C15_FileEmission ==
    last.op = "static" =>
        LET accepted == {FirstGroup(tsv[i][1]) : i \in {j \in 1..Len(tsv) : StaticAccepted(tsv[j])}}
        IN  /\ {w.file : w \in last.written}
                   = {StaticFileName(g, <<"S", "e", "p", "t", "e", "m", "b", "e", "r">>, <<"2", "0", "2", "6">>) : g \in accepted}
            /\ Cardinality(last.written) = Cardinality(accepted)
            /\ \A w \in last.written : w.events # {}

\* one file written from two rows of two groups, the row of the other group
\* not accepted
C15_Witness ==
    /\ last.op = "static"
    /\ Cardinality(last.written) = 1
    /\ Len(tsv) = 2
    /\ \E i, j \in 1..2 :
           /\ StaticAccepted(tsv[i])
           /\ Len(tsv[j]) >= 4 /\ ~StaticAccepted(tsv[j])
           /\ FirstGroup(tsv[j][1]) \notin {None, FirstGroup(tsv[i][1])}

\* two files written from two accepted rows of two groups
C15_WitnessTwo ==
    /\ last.op = "static"
    /\ Cardinality(last.written) = 2

(***************************************************************************)
(* What the specification says of a run of the conversion tool             *)
(***************************************************************************)
\* --year was given with an integer outside [1900, 3000]
YearOutOfRange(args) ==
    args.year # None /\ (int(args.year) < 1900 \/ int(args.year) > 3000)

\* --month was given with a text that is not one of the twelve month names
MonthNotAName(args) == args.month # None /\ args.month \notin valid_months

(***************************************************************************)
(* C16  Command-line validation: in every run with an existing input file, *)
(* a --year outside [1900, 3000] or a --month that is not one of the       *)
(* twelve month names makes the process exit non-zero with no file written *)
(* and the store unchanged, whatever the other flags; --year 2026 --month  *)
(* September with a file that has an accepted row exits 0 and writes       *)
(* files.  The code validates only on the static branch and only values    *)
(* that are true in Python.                                                *)
(***************************************************************************)
C16_CliValidation ==
    (last.op = "convert" /\ path_exists(last.args.input_path)) =>
        /\ (YearOutOfRange(last.args) \/ MonthNotAName(last.args)) =>
               /\ last.exit # 0
               /\ last.written = {}
               /\ ~last.imported
        /\ (/\ last.args.year = <<"2", "0", "2", "6">>
            /\ last.args.month = <<"S", "e", "p", "t", "e", "m", "b", "e", "r">>
            /\ ~last.args.to_database /\ ~last.args.start_server
            /\ \E i \in 1..Len(tsv) : StaticAccepted(tsv[i])) =>
               last.exit = 0 /\ last.written # {}

(***************************************************************************)
(* C17  Import before server start: in a run with an existing input path,  *)
(* --to-database and --start-server, the server is launched only after the *)
(* ingestion has completed, so the store then holds the records of the     *)
(* file.  The code launches the server first and never runs the import.    *)
(***************************************************************************)
C17_ImportBeforeServer ==
    (/\ last.op = "convert"
     /\ path_exists(last.args.input_path)
     /\ last.args.to_database
     /\ last.args.start_server
     /\ last.server) =>
        /\ last.imported
        /\ DataOf(db) = RecordsOf(tsv)

(***************************************************************************)
(* What the specification says of a query beside an import                 *)
(***************************************************************************)
\* the records of a set a request of the group parameter lists
InScope(S, group) ==
    IF group = None \/ group = ALL THEN {r \in S : r.is_active}
    ELSE {r \in S : r.is_active /\ r.module_group = upper(group)}

(***************************************************************************)
(* C18  Atomic visibility of the replace-all: while an import runs, every  *)
(* answer to a query made through another connection lists either the      *)
(* complete record set the store held before the import or the complete    *)
(* record set of the file, never the emptied table and never a part of the *)
(* new rows.                                                               *)
(***************************************************************************)
C18_AtomicVisibility ==
    (txn.active /\ last.op = "deadlines" /\ last.status = 200) =>
        \/ Lists(last.deadlines, InScope(txn.before, last.group))
        \/ Lists(last.deadlines, InScope(RecordsOf(tsv), last.group))

\* a query answered with records after the import has deleted the rows of a
\* non-empty store and inserted the first of two records
C18_Witness ==
    /\ txn.active
    /\ last.op = "deadlines" /\ last.status = 200
    /\ last.left = 1
    /\ Cardinality(txn.table) = 1
    /\ Cardinality(RecordsOf(tsv)) = 2
    /\ txn.before # {}
    /\ last.deadlines # <<>>

\* a query answered right after the DELETE
C18_WitnessDeleted ==
    /\ txn.active
    /\ last.op = "deadlines" /\ last.status = 200
    /\ last.left = Len(tsv)
    /\ txn.table = {}
    /\ RecordsOf(tsv) # {}
    /\ last.deadlines # <<>>

(***************************************************************************)
(* C19  Per-request isolation of blocking: every connection is handled on  *)
(* its own thread, so a connection that arrives while a handler is blocked *)
(* on I/O is still taken up by a handler of its own, however long the      *)
(* other stays blocked.  The code runs every handler in the one thread of  *)
(* the server loop: while a handler is blocked no other connection is      *)
(* taken up.                                                               *)
(***************************************************************************)
C19_OwnThread ==
    \A c \in Connections : (c \in Waiting) ~> (c \notin Waiting)

(***************************************************************************)
(* What the specification says of the events of a feed                     *)
(***************************************************************************)
\* the active records in the scope of the feed of a name
FeedScope(name) ==
    IF name = <<"a", "l", "l">> THEN Active ELSE ActiveOf(upper(name))

\* the UID of the event of a stored record
UidOf(r) ==
    r.module_code \o <<"-">> \o r.assignment_code \o <<"-">> \o r.deadline_date
        \o <<"@", "d", "e", "a", "d", "l", "i", "n", "e", "s", "-", "c", "a", "l", "e", "n", "d", "a", "r">>

(***************************************************************************)
(* C20  One event per record: the feed of every non-empty name holds       *)
(* exactly one event for each active record in its scope; two stored       *)
(* records of distinct (module_code, assignment_code) never have one UID,  *)
(* so the number of events is the number of records in scope.  The code    *)
(* joins the three fields with "-", which the fields may hold themselves:  *)
(* two records can have one UID, and the feed then holds one event for     *)
(* both.                                                                   *)
(***************************************************************************)
C20_OneEventPerRecord ==
    (last.op = "calendar" /\ last.calendar.ok /\ FeedName(last.path) # <<>>) =>
        LET scope == FeedScope(FeedName(last.path))
        IN  /\ \A r, q \in scope :
                   <<r.module_code, r.assignment_code>> # <<q.module_code, q.assignment_code>>
                       => UidOf(r) # UidOf(q)
            /\ Cardinality(last.calendar.events) = Cardinality(scope)

(***************************************************************************)
(* What the specification says of a well-formed store                      *)
(***************************************************************************)
\* the ten fixed codes
TenCodes == {module_groups[k] : k \in 1..Len(module_groups)}

\* a yyyy-mm-dd text denotes a day of the calendar
IsCalendarDay(s) ==
    LET y == int(SubSeq(s, 1, 4))
        m == int(SubSeq(s, 6, 7))
        d == int(SubSeq(s, 9, 10))
    IN  /\ y >= 1
        /\ m >= 1 /\ m <= 12
        /\ d >= 1 /\ d <= MonthLength(y, m)

(***************************************************************************)
(* C21  Store well-formedness: in every state of the store, whatever       *)
(* initializations and ingestions led to it, every stored record has a     *)
(* module_group that is one of the ten fixed codes and a prefix of its     *)
(* upper-cased module_code, and a deadline_date of the form yyyy-mm-dd     *)
(* that denotes a valid calendar date; so no feed generation fails to      *)
(* parse a stored deadline date: every feed request is answered with a     *)
(* calendar.                                                               *)
(***************************************************************************)
C21_WellFormedStore ==
    /\ \A r \in db :
           /\ r.module_group \in TenCodes
           /\ startswith(upper(r.module_code), r.module_group)
           /\ IsIsoForm(r.deadline_date)
           /\ IsCalendarDay(r.deadline_date)
    /\ last.op = "calendar" => last.calendar.ok /\ last.status = 200

\* after an import that stored a record with a lower-case module code and
\* a one-digit day and month, a feed with its event has been generated
C21_Witness ==
    /\ loaded
    /\ last.op = "calendar"
    /\ \E r \in db :
           /\ r.module_code # upper(r.module_code)
           /\ \E e \in last.calendar.events : e.name = SummaryOf(r)

\* the same on a store a second import has replaced
C21_WitnessReimport ==
    /\ loaded
    /\ seq > Cardinality(db) + 3
    /\ db # {}
    /\ last.op = "calendar"
    /\ last.calendar.events # {}

(***************************************************************************)
(* What the specification says of a fresh response                         *)
(***************************************************************************)
\* the entry is the entry of a record the file yields
FromFile(entry) ==
    \E rec \in RecordsOf(tsv) :
        /\ entry.module_code = rec.module_code
        /\ entry.assignment_code = rec.assignment_code
        /\ entry.title = rec.title
        /\ entry.deadline_date = rec.deadline_date
        /\ entry.recommend_date = rec.recommend_date

\* the records a request of /api/deadlines is about
ParamScope(group) ==
    IF group = None \/ group = ALL THEN Active ELSE ActiveOf(upper(group))

(***************************************************************************)
(* C22  Feed freshness: every calendar feed and every JSON response is     *)
(* computed from the rows the store holds when the request is made.  The   *)
(* JSON response lists the active records of its scope as the store holds  *)
(* them now, each once; every event of a feed is the event of a record     *)
(* the store holds now, and every record in the scope of a feed of a       *)
(* non-empty name has its UID among the events.  Once an ingestion has     *)
(* completed, a response holds only what the ingested file yields:         *)
(* nothing that the store held before the ingestion and the file does not  *)
(* yield.                                                                  *)
(***************************************************************************)
C22_Freshness ==
    /\ last.op = "deadlines" =>
         /\ Lists(last.deadlines, ParamScope(last.group))
         /\ loaded => \A i \in 1..Len(last.deadlines) : FromFile(last.deadlines[i])
    /\ (last.op = "calendar" /\ last.calendar.ok) =>
         /\ \A e \in last.calendar.events :
                \E r \in Active :
                    /\ e.name = SummaryOf(r)
                    /\ e.uid = UidOf(r)
                    /\ loaded => FromFile(EntryOf(r))
         /\ FeedName(last.path) # <<>> =>
                \A r \in FeedScope(FeedName(last.path)) :
                    \E e \in last.calendar.events : e.uid = UidOf(r)

\* a store that held rows before the last ingestion (more ids were given out
\* than one ingestion of the file gives) and a JSON response with records
\* after it
C22_Witness ==
    /\ loaded
    /\ seq > Len(tsv)
    /\ last.op = "deadlines"
    /\ last.deadlines # <<>>

\* the same with a feed
C22_WitnessFeed ==
    /\ loaded
    /\ seq > Len(tsv)
    /\ last.op = "calendar"
    /\ last.calendar.events # {}

\* a response given before any ingestion, from the rows an earlier run left
C22_WitnessBefore ==
    /\ ~loaded
    /\ last.op = "deadlines"
    /\ last.deadlines # <<>>

(***************************************************************************)
(* C23  A failed ingestion leaves the store unchanged: when import_from_tsv *)
(* fails after its DELETE (the file cannot be opened, or cannot be read to  *)
(* the end) nothing is committed; the committed rows and the id sequence    *)
(* are those the store held before the ingestion, and every answer to a     *)
(* later query lists the complete record set of before, never the emptied   *)
(* table and never the part the ingestion had loaded.                       *)
(***************************************************************************)
C23_FailedImportKeepsStore ==
    ImportFailed =>
        /\ db = txn.before
        /\ \A r \in db : r.id <= seq
        /\ (last.op = "deadlines" /\ last.status = 200) =>
               Lists(last.deadlines, InScope(txn.before, last.group))

\* an import of a file of two records failed on a store with rows after it
\* had inserted the first, and a later query has been answered with records
C23_Witness ==
    /\ ImportFailed
    /\ txn.before # {}
    /\ txn.left = 1
    /\ Cardinality(RecordsOf(tsv)) = 2
    /\ last.op = "deadlines"
    /\ "after_failure" \in DOMAIN last
    /\ last.deadlines # <<>>

\* open() failed: the import had deleted the rows and read nothing
C23_WitnessNotOpened ==
    /\ ImportFailed
    /\ txn.before # {}
    /\ txn.left = Len(tsv)
    /\ RecordsOf(tsv) # {}
    /\ last.op = "import_failed"

\* an import that failed after one that had committed
C23_WitnessAfterCommit ==
    /\ ImportFailed
    /\ loaded
    /\ DataOf(txn.before) = RecordsOf(tsv)
    /\ txn.before # {}
    /\ last.op = "deadlines"
    /\ "after_failure" \in DOMAIN last

(***************************************************************************)
(* What the specification says of the two readers of the file              *)
(***************************************************************************)
\* the recommended-date field of every row that has one is empty or a valid
\* date
RecommendedDatesFine ==
    \A i \in 1..Len(tsv) :
        Len(tsv[i]) >= 3 => BlankRecommend(tsv[i]) \/ IsDayMonthYear(tsv[i][3])

\* no two accepted rows have the same trimmed module and assignment code
NoSharedKey ==
    \A i, j \in 1..Len(tsv) :
        (i # j /\ Accepted(tsv[i]) /\ Accepted(tsv[j])) => KeyOf(tsv[i]) # KeyOf(tsv[j])

\* the rows of the file the store has a record of
IngestedRows ==
    { i \in 1..Len(tsv) :
        /\ Len(tsv[i]) >= 4
        /\ IsDayMonthYear(tsv[i][4])
        /\ \E r \in db : /\ RecordKey(r) = KeyOf(tsv[i])
                         /\ r.deadline_date = IsoOf(tsv[i][4]) }

\* the rows of the file a written static calendar has an event of (the
\* event of a row is known by the row's position)
StaticRowsWritten == {e.uid : e \in UNION {w.events : w \in last.written}}

\* the (group, deadline date) pairs of the static events and of the records
StaticPairs ==
    UNION { {<<w.group, isoformat(e.begin)>> : e \in w.events} : w \in last.written }

StoredPairs == {<<r.module_group, r.deadline_date>> : r \in db}

\* a row with a group and a valid deadline whose recommended date is neither
\* empty nor a date
BadRecommendOnly(row) ==
    /\ Len(row) >= 4
    /\ FirstGroup(row[1]) # None
    /\ IsDayMonthYear(row[4])
    /\ ~BlankRecommend(row)
    /\ ~IsDayMonthYear(row[3])

(***************************************************************************)
(* C24  Agreement of the two parsing paths: for a file in which every      *)
(* recommended-date field is empty or a valid date and no two accepted     *)
(* rows share the trimmed (module code, assignment code), the static       *)
(* generator and the ingestion accept the same rows and put each in the    *)
(* same group, and the (group, deadline date) pairs of the static events    *)
(* are those of the stored records.  A row with a valid deadline and a     *)
(* non-empty recommended date that does not parse has a static event and   *)
(* no stored record.                                                       *)
(***************************************************************************)
C24_PathsAgree ==
    (loaded /\ last.op = "static") =>
        /\ (RecommendedDatesFine /\ NoSharedKey) =>
               /\ StaticRowsWritten = IngestedRows
               /\ \A w \in last.written :
                      \A e \in w.events :
                          \E r \in db : /\ RecordKey(r) = KeyOf(tsv[e.uid])
                                        /\ r.module_group = w.group
                                        /\ r.deadline_date = isoformat(e.begin)
               /\ StaticPairs = StoredPairs
               /\ Cardinality(StaticRowsWritten) = Cardinality(db)
        /\ \A i \in 1..Len(tsv) :
               BadRecommendOnly(tsv[i]) =>
                   /\ i \in StaticRowsWritten
                   /\ (\A j \in 1..Len(tsv) :
                           Accepted(tsv[j]) => KeyOf(tsv[j]) # KeyOf(tsv[i]))
                          => \A r \in db : RecordKey(r) # KeyOf(tsv[i])

\* a file within the condition, with a lower-case module code, a blank
\* recommended date and a row neither reader accepts, read by both readers:
\* one record and one static event
C24_Witness ==
    /\ loaded
    /\ last.op = "static"
    /\ RecommendedDatesFine /\ NoSharedKey
    /\ last.written # {}
    /\ \E i \in IngestedRows : tsv[i][1] # upper(strip(tsv[i][1]))
    /\ \E i \in 1..Len(tsv) : ~Accepted(tsv[i])

\* a file within the condition with rows of two groups, read by both
C24_WitnessTwoGroups ==
    /\ loaded
    /\ last.op = "static"
    /\ RecommendedDatesFine /\ NoSharedKey
    /\ Cardinality(last.written) >= 2
    /\ Cardinality(db) >= 2

\* a file with a row of a recommended date that does not parse, read by both
C24_WitnessBadRecommend ==
    /\ loaded
    /\ last.op = "static"
    /\ db # {}
    /\ \E i \in 1..Len(tsv) : BadRecommendOnly(tsv[i])
====
